---- MODULE Spec2Model ----
(***************************************************************************)
(* The harvest orchestrator of youtube-trending-bot (class YoutubeMarkov,  *)
(* three-file storage variant, src/unnamed/part_000 lines 140-364) as a    *)
(* state machine: the instance's fields, the three storage files and their *)
(* directories, the file operations in flight, and every invocation of     *)
(* updateMapFromYoutube with its position in the per-video loop.           *)
(*                                                                         *)
(* Text is kept run-length encoded: a text is a sequence of runs           *)
(* [line, n], n consecutive copies of one line; a line is a sequence of    *)
(* whitespace-separated tokens.  An array of comments is a sequence of     *)
(* [comment, times], times equal comments in a row, so that an array of    *)
(* MAX_COMMENTS_PER_VIDEO comments is one entry.                           *)
(***************************************************************************)
EXTENDS Integers, Sequences, FiniteSets, Bags, TLC

\* ------------------------------------------------------------ constants
QUOTA_COST_PER_FETCH == 4
MAX_QUOTA_PER_DAY == 10000
COMMENTS_PER_BATCH == 100
\* (MAX_QUOTA_PER_DAY / QUOTA_COST_PER_FETCH) * COMMENTS_PER_BATCH; the
\* division is exact for the values above.
MAX_COMMENTS_PER_DAY ==
    (MAX_QUOTA_PER_DAY \div QUOTA_COST_PER_FETCH) * COMMENTS_PER_BATCH
MAX_COMMENTS_PER_VIDEO == 10000
MAX_VIDEOS_PER_UPDATE == 50
CHAIN_LENGTH == 3
\* the chain length of the single-file variant
LEGACY_CHAIN_LENGTH == 2

\* -------------------------------------------------------------- bounds
\* invocations of updateMapFromYoutube, over all process lifetimes
MaxCalls == 2
\* process restarts
MaxRestarts == 1
\* file operations that fail
MaxFailures == 1
\* how many videos a long trending list has beyond MAX_VIDEOS_PER_UPDATE
ExtraVideos == 2

\* ---------------------------------------------------------------- text
START == "START"
END == "END"

Front(s) == SubSeq(s, 1, Len(s) - 1)

Run(line, n) == [line |-> line, n |-> n]

\* comments.length
RECURSIVE Length(_)
Length(comments) ==
    IF comments = <<>> THEN 0 ELSE comments[1].times + Length(Tail(comments))

\* comments.join('\n'): one line per comment, no line boundary after the
\* last one; the empty array gives the empty string.
join(comments) ==
    [i \in DOMAIN comments |-> Run(comments[i].comment, comments[i].times)]

\* The string a + b of two texts: the last line of a and the first line of
\* b become one line, and with it the last token of a and the first token of
\* b become one token.
MergeLines(a, b) ==
    Front(a) \o <<a[Len(a)] \o b[1]>> \o Tail(b)

Concat(a, b) ==
    IF b = <<>> THEN a
    ELSE IF a = <<>> THEN b
    ELSE LET la == a[Len(a)]
             fb == b[1]
             pre == IF la.n > 1
                    THEN Front(a) \o <<Run(la.line, la.n - 1)>>
                    ELSE Front(a)
             post == IF fb.n > 1
                     THEN <<Run(fb.line, fb.n - 1)>> \o Tail(b)
                     ELSE Tail(b)
         IN pre \o <<Run(MergeLines(la.line, fb.line), 1)>> \o post

\* ------------------------------------------------------ transition map
\* A map is a function from chain keys (tuples of K tokens) to bags of
\* successor tokens.
EmptyMap == << >>

Padded(line, K) == [i \in 1..K |-> START] \o line \o <<END>>

AddTransition(m, key, succ, n) ==
    IF key \in DOMAIN m
    THEN [m EXCEPT ![key] = @ (+) (succ :> n)]
    ELSE m @@ (key :> (succ :> n))

\* the windows of one token sequence, from position i on, each seen n times
RECURSIVE AddWindows(_, _, _, _, _)
AddWindows(m, toks, K, i, n) ==
    IF i + K > Len(toks) THEN m
    ELSE AddWindows(
             AddTransition(m, SubSeq(toks, i, i + K - 1), toks[i + K], n),
             toks, K, i + 1, n)

RECURSIVE updateDictionaryFromInput(_, _, _)
updateDictionaryFromInput(text, m, K) ==
    IF text = <<>> THEN m
    ELSE updateDictionaryFromInput(
             Tail(text),
             AddWindows(m, Padded(text[1].line, K), K, 1, text[1].n),
             K)

createDictionaryFromInput(text, K) ==
    updateDictionaryFromInput(text, EmptyMap, K)

\* ------------------------------------------------------------- storage
\* The content of a file: missing, not JSON ("garbage"), one of the JSON
\* values null, a number, an array of identifiers, an object (a map), the
\* document of the single-file variant ("legacy"), or the text of the
\* comments file.
Doc(kind, ids, m, text) ==
    [kind |-> kind, ids |-> ids, map |-> m, text |-> text]
Missing == Doc("missing", <<>>, EmptyMap, <<>>)
Garbage == Doc("garbage", <<>>, EmptyMap, <<>>)
JsonNull == Doc("null", <<>>, EmptyMap, <<>>)
JsonNumber == Doc("number", <<>>, EmptyMap, <<>>)
JsonArray(ids) == Doc("array", ids, EmptyMap, <<>>)
JsonObject(m) == Doc("object", <<>>, m, <<>>)
TextFile(text) == Doc("text", <<>>, EmptyMap, text)
\* what saveMapToStorage of the single-file variant wrote:
\* { harvestedYoutubeIDs: Array.from(set), map: map }
LegacyDocument(ids, m) == Doc("legacy", ids, m, <<>>)

\* new Set(array): the elements in order of first occurrence
RECURSIVE NewSet(_)
NewSet(ids) ==
    IF ids = <<>> THEN <<>>
    ELSE LET rest == NewSet(Front(ids))
             last == ids[Len(ids)]
         IN IF \E i \in DOMAIN rest : rest[i] = last
            THEN rest ELSE Append(rest, last)

\* set.has(id), set.add(id), Array.from(set)
Has(set, id) == \E i \in DOMAIN set : set[i] = id
Add(set, id) == IF Has(set, id) THEN set ELSE Append(set, id)
ArrayFrom(set) == set

\* JSON.stringify of the in-memory map field
Stringify(kind, m) ==
    IF kind = "object" THEN JsonObject(m) ELSE Doc(kind, <<>>, EmptyMap, <<>>)

\* readFile + JSON.parse; any failure gives null
loadJSONFromFile(doc) ==
    IF doc.kind \in {"missing", "garbage"} THEN JsonNull ELSE doc

\* the text read lacks its last line
loadFileDropsLast(doc) ==
    IF doc.kind = "missing" THEN JsonNull
    ELSE [doc EXCEPT !.text = IF @ = <<>> THEN @ ELSE Front(@)]

\* readFile; a failure gives null
loadFile(doc) ==
    IF doc.kind = "missing" THEN JsonNull ELSE doc

\* The file system as the save functions see it: per storage path the
\* number of missing directories above the file (0: the directory exists,
\* 1: it is missing and its parent exists, 2: its parent is missing too),
\* the operations in flight, and the rejections nobody awaits.
Io(dirs, ops, rej) == [dirs |-> dirs, pending |-> ops, lost |-> rej]

Op(op, file, doc, by) == [op |-> op, file |-> file, doc |-> doc, by |-> by]

\* existsSync(dir) / mkdirSync(dir), then the write is started.  mkdirSync
\* throws when the parent of dir is missing; inside the async function that
\* is a rejected promise.
StartOp(io, o) ==
    IF io.dirs[o.file] = 2
    THEN [io EXCEPT !.lost = @ \cup {<<o.by, o.file>>}]
    ELSE [io EXCEPT !.dirs[o.file] = 0,
                    !.pending = @ (+) SetToBag({o})]

saveJSONToFile(io, doc, file, by) == StartOp(io, Op("write", file, doc, by))

saveDataToStorage(io, ids, kind, m, by) ==
    saveJSONToFile(
        saveJSONToFile(io, JsonArray(ArrayFrom(ids)), "ids", by),
        Stringify(kind, m), "map", by)

saveCommentsToStorage(io, comments, by) ==
    StartOp(io, Op("append", "comments", TextFile(join(comments)), by))

\* ------------------------------------------------------------- metrics
\* a number as the division gives it: a ratio, or NaN for 0 / 0, or
\* Infinity for n / 0
Number(kind, num, den) == [kind |-> kind, num |-> num, den |-> den]

Divide(a, b) ==
    IF b # 0 THEN Number("finite", a, b)
    ELSE IF a = 0 THEN Number("NaN", 0, 0)
    ELSE Number("Infinity", a, 0)

\* Object.keys(this.map).length
getKeyCount(m) == Cardinality(DOMAIN m)

\* Object.values(this.map).reduce(...): the lengths of the successor
\* arrays, added up
RECURSIVE TotalValues(_, _)
TotalValues(m, keys) ==
    IF keys = {} THEN 0
    ELSE LET key == CHOOSE k \in keys : TRUE
         IN BagCardinality(m[key]) + TotalValues(m, keys \ {key})

getKeyValueRatio(m) == Divide(TotalValues(m, DOMAIN m), getKeyCount(m))

\* --------------------------------------------------------------- state
VARIABLES
    map,                  \* this.map, meaningful when mapKind = "object"
    mapKind,              \* "undefined", or the JSON kind of the value held
    harvestedYoutubeIDs,  \* this.harvestedYoutubeIDs, in insertion order
    phase,                \* "new", "ready" (initialise resolved), "failed"
    calls,                \* the invocations of updateMapFromYoutube
    files,                \* content of the three storage files
    dirMissing,           \* missing directories above each storage file
    pending,              \* bag of file operations in flight
    lost,                 \* <<invocation, file>>: rejections nobody awaits
    failures,             \* file operations that have failed
    boot,                 \* how initialise went, and the disk it read;
                          \* the rebuilds from the comments file so far
    fetchCount,           \* bag: fetchAllCommentsForVideo(v) calls so far
    fetchFailures,        \* bag: those of them that rejected
    restarts

vars == <<map, mapKind, harvestedYoutubeIDs, phase, calls, files, dirMissing,
          pending, lost, failures, boot, fetchCount, fetchFailures,
          restarts>>

Files == {"map", "ids", "comments"}
Callers == 1..MaxCalls
\* operations started by initialise carry this in place of an invocation
ByInit == 0

Disk(mapDoc, idsDoc, commentsDoc) ==
    [f \in Files |-> CASE f = "map" -> mapDoc
                       [] f = "ids" -> idsDoc
                       [] OTHER -> commentsDoc]

IdleCall ==
    [pc |-> "idle", trending |-> <<>>, i |-> 0, commentsFetched |-> 0,
     \* for the record: the list fetchTrendingVideos gave and the set it was
     \* filtered by, the videos passed to fetchAllCommentsForVideo, and how
     \* the invocation ended ("full", "break", "listThrew", "fetchThrew")
     listed |-> <<>>, seen |-> <<>>, fetched |-> <<>>, ended |-> "no"]

NoBoot ==
    [path |-> "none", disk |-> Disk(Missing, Missing, Missing),
     rebuilds |-> <<>>]

\* ---------------------------------------------------------- initialise
\* loadDataFromStorage: the fields, the file system and the outcome after
\* it has run on the given disk.  No other code of the process runs while
\* initialise is awaited, so its reads see one disk.
loadDataFromStorage(disk, io, set) ==
    LET ids == loadJSONFromFile(disk["ids"])
        stored == loadJSONFromFile(disk["map"])
        set1 == IF ids.kind = "null" THEN set ELSE NewSet(ids.ids)
        fresh == createDictionaryFromInput(<<>>, CHAIN_LENGTH)
        allCommentsEver == loadFile(disk["comments"])
        rebuilt == updateDictionaryFromInput(allCommentsEver.text, fresh,
                                             CHAIN_LENGTH)
    IN  IF ids.kind \notin {"null", "array"}
        THEN \* new Set(ids) throws: ids is not iterable
             [path |-> "threw", set |-> set, kind |-> "undefined",
              m |-> EmptyMap, io |-> io]
        ELSE IF stored.kind # "null"
        THEN [path |-> "stored", set |-> set1, kind |-> stored.kind,
              m |-> stored.map, io |-> io]
        ELSE IF allCommentsEver.kind = "null"
        THEN [path |-> "fresh", set |-> set1, kind |-> "object",
              m |-> fresh, io |-> io]
        ELSE [path |-> "rebuilt", set |-> set1, kind |-> "object",
              m |-> rebuilt,
              io |-> saveDataToStorage(io, set1, "object", rebuilt, ByInit)]

initialise ==
    /\ phase = "new"
    /\ LET r == loadDataFromStorage(files, Io(dirMissing, pending, lost),
                                    harvestedYoutubeIDs)
       IN /\ phase' = IF r.path = "threw" THEN "failed" ELSE "ready"
          /\ harvestedYoutubeIDs' = r.set
          /\ mapKind' = r.kind
          /\ map' = r.m
          /\ dirMissing' = r.io.dirs
          /\ pending' = r.io.pending
          /\ lost' = r.io.lost
          /\ boot' = [path |-> r.path, disk |-> files,
                      rebuilds |->
                          IF r.path = "rebuilt"
                          THEN Append(boot.rebuilds,
                                      [text |-> files["comments"].text,
                                       m |-> r.m])
                          ELSE boot.rebuilds]
    /\ UNCHANGED <<calls, files, failures, fetchCount, fetchFailures,
                   restarts>>

\* ------------------------------------------------------ file operations
\* writeFile replaces the content; appendFile adds to it, creating the file
WriteResult(old, o) ==
    IF o.op = "write" THEN o.doc
    ELSE TextFile(Concat(old.text, o.doc.text))

OpCompletes(o) ==
    /\ BagIn(o, pending)
    /\ pending' = pending (-) SetToBag({o})
    /\ files' = [files EXCEPT ![o.file] = WriteResult(@, o)]
    /\ UNCHANGED <<map, mapKind, harvestedYoutubeIDs, phase, calls,
                   dirMissing, lost, failures, boot, fetchCount,
                   fetchFailures, restarts>>

\* the operation fails (disk full, permissions): its promise rejects, and
\* no caller holds that promise
OpFails(o) ==
    /\ BagIn(o, pending)
    /\ failures < MaxFailures
    /\ failures' = failures + 1
    /\ pending' = pending (-) SetToBag({o})
    /\ lost' = lost \cup {<<o.by, o.file>>}
    /\ UNCHANGED <<map, mapKind, harvestedYoutubeIDs, phase, calls, files,
                   dirMissing, boot, fetchCount, fetchFailures, restarts>>

\* ------------------------------------------------- updateMapFromYoutube
RECURSIVE Filter(_, _)
Filter(list, set) ==
    IF list = <<>> THEN <<>>
    ELSE IF Has(set, list[1]) THEN Filter(Tail(list), set)
    ELSE <<list[1]>> \o Filter(Tail(list), set)

Slice(list, n) == SubSeq(list, 1, IF Len(list) < n THEN Len(list) ELSE n)

\* the filter without the cut
BatchUncut(list, set) == Filter(list, set)

\* the two steps in the other order
BatchSliceFirst(list, set) ==
    Filter(Slice(list, MAX_VIDEOS_PER_UPDATE), set)

\* .filter(videoID => !this.harvestedYoutubeIDs.has(videoID))
\* .slice(0, MAX_VIDEOS_PER_UPDATE)
Batch(list, set) == Slice(Filter(list, set), MAX_VIDEOS_PER_UPDATE)

\* the test without its look-ahead of one video
QuotaReachedLate(commentsFetched) ==
    commentsFetched > MAX_COMMENTS_PER_DAY

\* the test that ends the loop early
QuotaReached(commentsFetched) ==
    commentsFetched + MAX_COMMENTS_PER_VIDEO > MAX_COMMENTS_PER_DAY

\* fetchAllCommentsForVideo(v, ...) is called
Fetching(v) == fetchCount (+) SetToBag({v})

\* the statements after the loop: saveDataToStorage is called and not
\* awaited, and the invocation's promise resolves
AfterLoop(c, call, how, io, set, kind, m) ==
    LET io2 == saveDataToStorage(io, set, kind, m, c)
    IN /\ calls' = [calls EXCEPT ![c] = [call EXCEPT !.pc = "resolved",
                                                    !.ended = how]]
       /\ dirMissing' = io2.dirs
       /\ pending' = io2.pending
       /\ lost' = io2.lost

\* the caller invokes updateMapFromYoutube on an initialised instance; the
\* function runs up to its first await
UpdateCall(c) ==
    /\ phase = "ready"
    /\ mapKind = "object"
    /\ calls[c].pc = "idle"
    /\ \A d \in Callers : d < c => calls[d].pc # "idle"
    /\ calls' = [calls EXCEPT ![c].pc = "awaitTrending"]
    /\ UNCHANGED <<map, mapKind, harvestedYoutubeIDs, phase, files,
                   dirMissing, pending, lost, failures, boot, fetchCount,
                   fetchFailures, restarts>>

\* fetchTrendingVideos resolves with list: the batch is computed, and the
\* first fetch is started or, with an empty batch, the loop is over
TrendingReturns(c, list) ==
    /\ calls[c].pc = "awaitTrending"
    /\ LET trending == Batch(list, harvestedYoutubeIDs)
           call == [calls[c] EXCEPT !.listed = list,
                                    !.seen = harvestedYoutubeIDs,
                                    !.trending = trending]
       IN IF trending = <<>>
          THEN /\ AfterLoop(c, call, "full",
                            Io(dirMissing, pending, lost),
                            harvestedYoutubeIDs, mapKind, map)
               /\ UNCHANGED fetchCount
          ELSE /\ calls' = [calls EXCEPT ![c] = [call EXCEPT
                                         !.pc = "awaitFetch",
                                         !.i = 1,
                                         !.fetched = <<trending[1]>>]]
               /\ fetchCount' = Fetching(trending[1])
               /\ UNCHANGED <<dirMissing, pending, lost>>
    /\ UNCHANGED <<map, mapKind, harvestedYoutubeIDs, phase, files,
                   failures, boot, fetchFailures, restarts>>

\* fetchTrendingVideos rejects: so does the invocation
TrendingFails(c) ==
    /\ calls[c].pc = "awaitTrending"
    /\ calls' = [calls EXCEPT ![c].pc = "rejected",
                              ![c].ended = "listThrew"]
    /\ UNCHANGED <<map, mapKind, harvestedYoutubeIDs, phase, files,
                   dirMissing, pending, lost, failures, boot, fetchCount,
                   fetchFailures, restarts>>

\* fetchAllCommentsForVideo resolves with comments: the rest of the loop
\* body, the quota test, and then the next fetch or the end of the loop
FetchReturns(c, comments) ==
    /\ calls[c].pc = "awaitFetch"
    /\ LET old == calls[c]
           videoId == old.trending[old.i]
           commentsFetched == old.commentsFetched + Length(comments)
           m == updateDictionaryFromInput(join(comments), map, CHAIN_LENGTH)
           set == Add(harvestedYoutubeIDs, videoId)
           io == saveCommentsToStorage(Io(dirMissing, pending, lost),
                                       comments, c)
           call == [old EXCEPT !.commentsFetched = commentsFetched]
       IN /\ map' = m
          /\ harvestedYoutubeIDs' = set
          /\ IF QuotaReached(commentsFetched)
             THEN /\ AfterLoop(c, call, "break", io, set, mapKind, m)
                  /\ UNCHANGED fetchCount
             ELSE IF old.i = Len(old.trending)
             THEN /\ AfterLoop(c, call, "full", io, set, mapKind, m)
                  /\ UNCHANGED fetchCount
             ELSE /\ calls' = [calls EXCEPT ![c] = [call EXCEPT
                                    !.i = @ + 1,
                                    !.fetched =
                                        Append(@, old.trending[old.i + 1])]]
                  /\ fetchCount' = Fetching(old.trending[old.i + 1])
                  /\ dirMissing' = io.dirs
                  /\ pending' = io.pending
                  /\ lost' = io.lost
    /\ UNCHANGED <<mapKind, phase, files, failures, boot, fetchFailures,
                   restarts>>

\* the failing video is skipped and the loop goes on
FetchFailsSkips(c) ==
    /\ calls[c].pc = "awaitFetch"
    /\ calls[c].i < Len(calls[c].trending)
    /\ calls' = [calls EXCEPT
                    ![c].ended = "fetchThrew",
                    ![c].i = @ + 1,
                    ![c].fetched =
                        Append(@, calls[c].trending[calls[c].i + 1])]
    /\ fetchCount' = Fetching(calls[c].trending[calls[c].i + 1])
    /\ fetchFailures' =
           fetchFailures (+) SetToBag({calls[c].trending[calls[c].i]})
    /\ UNCHANGED <<map, mapKind, harvestedYoutubeIDs, phase, files,
                   dirMissing, pending, lost, failures, boot, restarts>>

\* the video whose fetch failed is marked as harvested
FetchFailsMarks(c) ==
    /\ calls[c].pc = "awaitFetch"
    /\ calls' = [calls EXCEPT ![c].pc = "rejected",
                              ![c].ended = "fetchThrew"]
    /\ harvestedYoutubeIDs' =
           Add(harvestedYoutubeIDs, calls[c].trending[calls[c].i])
    /\ fetchFailures' =
           fetchFailures (+) SetToBag({calls[c].trending[calls[c].i]})
    /\ UNCHANGED <<map, mapKind, phase, files, dirMissing, pending, lost,
                   failures, boot, fetchCount, restarts>>

\* fetchAllCommentsForVideo rejects: the exception leaves the loop and the
\* function, and the invocation's promise rejects
FetchFails(c) ==
    /\ calls[c].pc = "awaitFetch"
    /\ calls' = [calls EXCEPT ![c].pc = "rejected",
                              ![c].ended = "fetchThrew"]
    /\ fetchFailures' =
           fetchFailures (+) SetToBag({calls[c].trending[calls[c].i]})
    /\ UNCHANGED <<map, mapKind, harvestedYoutubeIDs, phase, files,
                   dirMissing, pending, lost, failures, boot, fetchCount,
                   restarts>>

\* The process ends between cycles and a new one is started on the same
\* storage: operations still in flight are gone with the process, and so
\* are its invocations.
Restart ==
    /\ phase \in {"ready", "failed"}
    /\ \A c \in Callers : calls[c].pc \notin {"awaitTrending", "awaitFetch"}
    /\ restarts < MaxRestarts
    /\ restarts' = restarts + 1
    /\ phase' = "new"
    /\ map' = EmptyMap
    /\ mapKind' = "undefined"
    /\ harvestedYoutubeIDs' = <<>>
    /\ calls' = [c \in Callers |->
                    IF calls[c].pc = "idle" THEN IdleCall
                    ELSE [calls[c] EXCEPT !.pc = "gone"]]
    /\ pending' = EmptyBag
    /\ boot' = [NoBoot EXCEPT !.rebuilds = boot.rebuilds]
    /\ UNCHANGED <<files, dirMissing, lost, failures, fetchCount,
                   fetchFailures>>

\* -------------------------------------------------------------- inputs
Words1 == <<"a", "b">>
Words2 == <<"b", "a">>
Comments(c, n) == <<[comment |-> c, times |-> n]>>

\* what fetchAllCommentsForVideo may resolve with
CommentArrays == {<<>>, Comments(Words1, 1)}

\* what fetchTrendingVideos may resolve with
TrendingLists == {<<1>>, <<2, 1>>}

\* a comments file left by an earlier run, and the map of its text
OldText == join(Comments(Words2, 1))
OldMap == createDictionaryFromInput(OldText, CHAIN_LENGTH)

AllDirs(n) == [f \in Files |-> n]

\* storage as a process may find it: nothing yet (with the directories
\* there or not), or the files of an earlier run
Installations ==
    {[disk |-> Disk(Missing, Missing, Missing), dirs |-> AllDirs(n)] :
         n \in 0..2}
    \cup {[disk |-> Disk(JsonObject(OldMap), JsonArray(<<1>>),
                         TextFile(OldText)), dirs |-> AllDirs(0)]}

InitWith(installations) ==
    /\ map = EmptyMap
    /\ mapKind = "undefined"
    /\ harvestedYoutubeIDs = <<>>
    /\ phase = "new"
    /\ calls = [c \in Callers |-> IdleCall]
    /\ \E inst \in installations :
          /\ files = inst.disk
          /\ dirMissing = inst.dirs
    /\ pending = EmptyBag
    /\ lost = {}
    /\ failures = 0
    /\ boot = NoBoot
    /\ fetchCount = EmptyBag
    /\ fetchFailures = EmptyBag
    /\ restarts = 0

Init == InitWith(Installations)

FileOp ==
    \E o \in BagToSet(pending) : OpCompletes(o) \/ OpFails(o)

\* the disk is faster than the network: a collaborator's answer arrives
\* when the file operations started before it have ended
DiskKeepsUp == pending = EmptyBag

\* the caller awaits the promise of each invocation before the next one
Awaited ==
    \A c \in Callers : calls[c].pc \notin {"awaitTrending", "awaitFetch"}

Started == Cardinality({c \in Callers : calls[c].pc # "idle"})

Steps(c) ==
    \/ \E list \in TrendingLists : DiskKeepsUp /\ TrendingReturns(c, list)
    \/ TrendingFails(c)
    \/ \E comments \in CommentArrays :
          DiskKeepsUp /\ FetchReturns(c, comments)
    \/ FetchFails(c)

\* Cycles one after the other, as the scheduler of the bot runs them.
Next ==
    \/ initialise
    \/ \E c \in Callers : (Awaited /\ UpdateCall(c)) \/ Steps(c)
    \/ FileOp
    \/ Restart

Spec == Init /\ [][Next]_vars

\* Any caller: updateMapFromYoutube may be invoked while an earlier
\* invocation is in flight.
NextOverlap ==
    \/ initialise
    \/ \E c \in Callers : UpdateCall(c) \/ Steps(c)
    \/ FileOp
    \/ Restart

SpecOverlap == Init /\ [][NextOverlap]_vars

\* ------------------------------------------------------------- startup
\* initialise on every content of the storage files: missing, not JSON,
\* JSON of another shape than the one written, and what an earlier run
\* wrote.  A missing file may have its directory missing too.
TwoLines == join(Comments(Words1, 1) \o Comments(Words2, 1))

\* the map of the same text as a build with the chain length of the
\* single-file variant stored it
ShortKeyMap == createDictionaryFromInput(OldText, LEGACY_CHAIN_LENGTH)

MapDocs ==
    {Missing, Garbage, JsonNull, JsonNumber, JsonObject(EmptyMap),
     JsonObject(OldMap), JsonObject(ShortKeyMap),
     LegacyDocument(<<2, 1>>, ShortKeyMap)}
IdsDocs ==
    {Missing, Garbage, JsonNull, JsonNumber, JsonObject(EmptyMap),
     JsonArray(<<>>), JsonArray(<<1>>), JsonArray(<<2, 1, 2>>)}
CommentsDocs ==
    {Missing, TextFile(<<>>), TextFile(OldText), TextFile(TwoLines)}

AnyStorage ==
    {[disk |-> Disk(m, i, t), dirs |-> d] :
        m \in MapDocs, i \in IdsDocs, t \in CommentsDocs,
        d \in {AllDirs(0), [AllDirs(0) EXCEPT !["map"] = 1],
               [AllDirs(0) EXCEPT !["map"] = 2],
               [AllDirs(0) EXCEPT !["ids"] = 2], AllDirs(1)}}

\* a file exists only in a directory that exists
Consistent(inst) ==
    \A f \in Files : inst.dirs[f] > 0 => inst.disk[f] = Missing

InitStartup == InitWith({inst \in AnyStorage : Consistent(inst)})

NextStartup ==
    \/ initialise
    \/ FileOp
    \/ Restart

SpecStartup == InitStartup /\ [][NextStartup]_vars

\* --------------------------------------------------------- long batches
\* Trending lists longer than MAX_VIDEOS_PER_UPDATE and videos with
\* MAX_COMMENTS_PER_VIDEO comments, in cycles one after the other.
MaxBatchCalls == 1

LongList(first) ==
    [i \in 1..(MAX_VIDEOS_PER_UPDATE + ExtraVideos) |-> first + i - 1]

QuietFrom == 101
BatchLists == {LongList(1), LongList(QuietFrom), <<2, 1>>}

\* the first two videos have any number of comments, the other videos up
\* to QuietFrom have MAX_COMMENTS_PER_VIDEO of them, the rest have one
BatchComments(v) ==
    IF v <= 2
    THEN {<<>>, Comments(Words1, 1), Comments(Words1, MAX_COMMENTS_PER_VIDEO)}
    ELSE IF v < QuietFrom
    THEN {Comments(Words1, MAX_COMMENTS_PER_VIDEO)}
    ELSE {Comments(Words2, 1)}

\* storage of an earlier run that harvested two videos of the long list
OldIds == <<3, MAX_VIDEOS_PER_UPDATE + 1>>
BatchInstallations ==
    {[disk |-> Disk(Missing, Missing, Missing), dirs |-> AllDirs(1)],
     [disk |-> Disk(JsonObject(OldMap), JsonArray(OldIds),
                    TextFile(OldText)), dirs |-> AllDirs(0)]}

InitBatch == InitWith(BatchInstallations)

NextBatch ==
    \/ initialise
    \/ \E c \in Callers :
          \/ Awaited /\ Started < MaxBatchCalls /\ UpdateCall(c)
          \/ \E list \in BatchLists : DiskKeepsUp /\ TrendingReturns(c, list)
          \/ TrendingFails(c)
          \/ /\ calls[c].pc = "awaitFetch"
             /\ \E comments \in BatchComments(calls[c].trending[calls[c].i]) :
                   DiskKeepsUp /\ FetchReturns(c, comments)
          \/ FetchFails(c)
    \/ \E o \in BagToSet(pending) : OpCompletes(o)

SpecBatch == InitBatch /\ [][NextBatch]_vars

\* Every collaborator call that is awaited returns or fails in the end,
\* and every file operation started ends.
BatchAnswers(c) ==
    \/ \E list \in BatchLists : DiskKeepsUp /\ TrendingReturns(c, list)
    \/ TrendingFails(c)
    \/ /\ calls[c].pc = "awaitFetch"
       /\ \E comments \in BatchComments(calls[c].trending[calls[c].i]) :
             DiskKeepsUp /\ FetchReturns(c, comments)
    \/ FetchFails(c)

SpecBatchFair ==
    /\ SpecBatch
    /\ WF_vars(\E o \in BagToSet(pending) : OpCompletes(o))
    /\ WF_vars(\E c \in Callers : BatchAnswers(c))

\* ------------------------------------------------------- cycles of a day
\* The cycles a scheduler runs within one day, one after the other, each on
\* a long trending list of videos with MAX_COMMENTS_PER_VIDEO comments.
DayLists == {LongList(1), LongList(QuietFrom)}

DayComments == {Comments(Words1, MAX_COMMENTS_PER_VIDEO)}

NextDay ==
    \/ initialise
    \/ \E c \in Callers :
          \/ Awaited /\ UpdateCall(c)
          \/ \E list \in DayLists : DiskKeepsUp /\ TrendingReturns(c, list)
          \/ \E comments \in DayComments :
                DiskKeepsUp /\ FetchReturns(c, comments)
    \/ \E o \in BagToSet(pending) : OpCompletes(o)

SpecDay == InitBatch /\ [][NextDay]_vars

\* ============================================================== claims

\* C1: over any sequence of initialise / updateMapFromYoutube calls, a
\* restart from the persisted files included, no video identifier is passed
\* to fetchAllCommentsForVideo more than once.  Read in the code's favour: a
\* fetch that rejected does not count, the video may be tried again.
C1_NoVideoFetchedTwice ==
    \A v \in BagToSet(fetchCount) :
        CopiesIn(v, fetchCount) <= 1 + CopiesIn(v, fetchFailures)

\* C2: the running total commentsFetched of an invocation never exceeds
\* MAX_COMMENTS_PER_DAY by more than MAX_COMMENTS_PER_VIDEO, and no fetch
\* is in progress that was started with commentsFetched +
\* MAX_COMMENTS_PER_VIDEO above MAX_COMMENTS_PER_DAY.
C2_QuotaBound ==
    \A c \in Callers :
        /\ calls[c].commentsFetched
              <= MAX_COMMENTS_PER_DAY + MAX_COMMENTS_PER_VIDEO
        /\ calls[c].pc = "awaitFetch" =>
              calls[c].commentsFetched + MAX_COMMENTS_PER_VIDEO
                  <= MAX_COMMENTS_PER_DAY

\* a cycle was stopped by the quota test with the ceiling reached
C2_Witness ==
    \E c \in Callers :
        /\ calls[c].ended = "break"
        /\ calls[c].i < Len(calls[c].trending)
        /\ calls[c].commentsFetched + MAX_COMMENTS_PER_VIDEO
              > MAX_COMMENTS_PER_DAY

\* C3: whenever the per-video loop of a cycle ends, by processing the whole
\* batch or by the quota break, the cycle writes the map file and the ID
\* index, with the in-memory map and ID set as they stand at the end of the
\* loop.
LoopEnds(c) ==
    /\ calls[c].pc \in {"awaitTrending", "awaitFetch"}
    /\ calls'[c].ended \in {"full", "break"}

C3_SavesAfterLoop ==
    [][\A c \in Callers :
          LoopEnds(c) =>
             /\ BagIn(Op("write", "ids", JsonArray(harvestedYoutubeIDs'), c),
                      pending')
             /\ BagIn(Op("write", "map", JsonObject(map'), c), pending')]_vars

\* C4: for every content of the storage files (missing, not JSON, JSON of
\* an unexpected shape) initialise completes without throwing and leaves a
\* usable map: the stored map if readable, otherwise the map rebuilt from
\* the comments file if there is one, otherwise an empty map.
ExpectedMap(disk) ==
    IF disk["map"].kind = "object" THEN disk["map"].map
    ELSE IF disk["comments"].kind = "text"
    THEN createDictionaryFromInput(disk["comments"].text, CHAIN_LENGTH)
    ELSE EmptyMap

C4_InitialiseAlwaysUsable ==
    /\ phase # "failed"
    /\ phase = "ready" =>
          /\ mapKind = "object"
          /\ map = ExpectedMap(boot.disk)

\* C5: with the map file absent and the comments file present, the rebuilt
\* map is in the map file by the time the promise of initialise resolves.
C5_RebuiltMapWritten ==
    (/\ phase = "ready"
     /\ boot.disk["map"].kind = "missing"
     /\ boot.disk["comments"].kind = "text")
        => files["map"] = JsonObject(map)

\* C6: after completed cycles whose file writes have all finished, the map
\* rebuilt from the comments file has the same keys and the same successor
\* multisets as the in-memory map grown by those cycles.  Taken from a
\* start where map and comments file agreed, with no write failed or lost.
StartedInAgreement ==
    /\ boot.path \in {"stored", "rebuilt", "fresh"}
    /\ boot.disk["map"].kind \in {"missing", "object"}
    /\ boot.disk["map"].kind = "object" =>
          boot.disk["map"].map =
              createDictionaryFromInput(boot.disk["comments"].text,
                                        CHAIN_LENGTH)

CyclesCompleted ==
    /\ phase = "ready"
    /\ \E c \in Callers : calls[c].pc = "resolved"
    /\ \A c \in Callers : calls[c].pc \in {"idle", "resolved"}
    /\ pending = EmptyBag
    /\ lost = {}
    /\ failures = 0
    /\ restarts = 0

C6_RebuildEqualsIncremental ==
    (StartedInAgreement /\ CyclesCompleted) =>
        createDictionaryFromInput(files["comments"].text, CHAIN_LENGTH) = map

\* C7: a storage write of the map, the ID index or the comments file that
\* fails during a cycle makes the promise of updateMapFromYoutube reject.
C7_WriteFailureReported ==
    \A c \in Callers :
        (\E f \in Files : <<c, f>> \in lost) =>
            calls[c].ended \notin {"full", "break"}

\* C8: when fetchAllCommentsForVideo fails for a video, the cycle is
\* aborted at that failure: the invocation rejects, the failing video is not
\* added to the harvested set, and no later video of the batch is fetched.
FetchThrew(c) == calls[c].ended = "fetchThrew"

C8_FetchFailureAborts ==
    [][\A c \in Callers :
          /\ (~FetchThrew(c) /\ FetchThrew(c)') =>
                /\ calls'[c].pc = "rejected"
                /\ calls'[c].fetched = calls[c].fetched
                /\ harvestedYoutubeIDs' = harvestedYoutubeIDs
                /\ ~Has(harvestedYoutubeIDs', calls[c].trending[calls[c].i])
                /\ map' = map
                /\ fetchCount' = fetchCount
                /\ pending' = pending
          /\ FetchThrew(c) =>
                /\ calls'[c].pc \in {"rejected", "gone"}
                /\ calls'[c].fetched = calls[c].fetched]_vars

\* a fetch failed after an earlier video of the batch was harvested, with
\* videos of the batch left
C8_Witness ==
    \E c \in Callers :
        /\ FetchThrew(c)
        /\ calls[c].pc = "rejected"
        /\ 1 < calls[c].i
        /\ calls[c].i < Len(calls[c].trending)

\* C9: at most one discovery or fetch call is outstanding at any time, and
\* harvest cycles never overlap.
C9_OneCallOutstanding ==
    Cardinality({c \in Callers :
                    calls[c].pc \in {"awaitTrending", "awaitFetch"}}) <= 1

\* C10: the batch of a cycle is the trending list without the identifiers
\* already harvested, in the order of the list, cut to its first
\* MAX_VIDEOS_PER_UPDATE elements; the fetches are issued in that order.
Range(seq) == {seq[k] : k \in DOMAIN seq}

\* batch is list without the members of seen, in the order of list, cut to
\* MAX_VIDEOS_PER_UPDATE: at[j] is the position in list of batch[j]; the
\* positions grow, every position skipped holds a member of seen, and a
\* batch shorter than MAX_VIDEOS_PER_UPDATE leaves no other position
IsFilteredPrefix(batch, list, seen) ==
    LET old == Range(seen)
        at == [j \in DOMAIN batch |->
                  CHOOSE k \in DOMAIN list : list[k] = batch[j]]
        last == IF batch = <<>> THEN 0 ELSE at[Len(batch)]
        Skipped(from, to) ==
            \A k \in (from + 1)..(to - 1) : list[k] \in old
    IN /\ Len(batch) <= MAX_VIDEOS_PER_UPDATE
       /\ \A j \in DOMAIN batch :
             /\ batch[j] \in Range(list) \ old
             /\ Skipped(IF j = 1 THEN 0 ELSE at[j - 1], at[j])
             /\ j > 1 => at[j - 1] < at[j]
       /\ Len(batch) < MAX_VIDEOS_PER_UPDATE =>
             Skipped(last, Len(list) + 1)

Listed(c) == calls[c].pc = "awaitTrending" /\ calls'[c].listed # <<>>

C10_BatchIsFilteredPrefix ==
    /\ [][\A c \in Callers :
             Listed(c) => IsFilteredPrefix(calls'[c].trending,
                                           calls'[c].listed,
                                           harvestedYoutubeIDs)]_vars
    /\ [](\A c \in Callers :
             /\ Len(calls[c].fetched) <= Len(calls[c].trending)
             /\ calls[c].fetched =
                   SubSeq(calls[c].trending, 1, Len(calls[c].fetched)))

\* a list longer than MAX_VIDEOS_PER_UPDATE with harvested identifiers in it
\* was cut to a full batch, and fetches were issued
C10_Witness ==
    \E c \in Callers :
        /\ Len(calls[c].listed) > MAX_VIDEOS_PER_UPDATE
        /\ \E k \in DOMAIN calls[c].listed :
              k < MAX_VIDEOS_PER_UPDATE
                 /\ calls[c].listed[k] \in Range(calls[c].seen)
        /\ Len(calls[c].trending) = MAX_VIDEOS_PER_UPDATE
        /\ Len(calls[c].fetched) > 2

\* C11: after initialise and after any sequence of cycles every key of the
\* map has exactly CHAIN_LENGTH tokens; a stored map whose keys were built
\* with another chain length is not loaded as the map.
C11_KeysHaveChainLength ==
    (phase = "ready" /\ mapKind = "object") =>
        \A key \in DOMAIN map : Len(key) = CHAIN_LENGTH

\* C12: getKeyValueRatio returns a defined value when the map has no keys,
\* as directly after initialise created a fresh empty map; it never returns
\* the undefined result of dividing by a key count of zero.
C12_RatioDefined ==
    (phase = "ready" /\ mapKind = "object") =>
        getKeyValueRatio(map).kind = "finite"

C14_BothLayoutsRestored ==
    phase = "ready" =>
        /\ boot.disk["map"].kind = "legacy" =>
              /\ mapKind = "object"
              /\ map = boot.disk["map"].map
              /\ harvestedYoutubeIDs = NewSet(boot.disk["map"].ids)
        /\ (/\ boot.disk["map"].kind = "object"
            /\ boot.disk["ids"].kind = "array") =>
              /\ mapKind = "object"
              /\ map = boot.disk["map"].map
              /\ harvestedYoutubeIDs = NewSet(boot.disk["ids"].ids)

\* C15: for every storage path, if directories above it are missing when a
\* write to it is attempted, all of them are created and the write goes
\* ahead.
WriteStarted(f) ==
    \E o \in BagToSet(pending') :
        o.file = f /\ CopiesIn(o, pending') > CopiesIn(o, pending)

\* a save function was called for f: its write was started, or it threw
\* before the write (a rejection that is not the failure of an operation)
WriteAttempted(f) ==
    \/ WriteStarted(f)
    \/ /\ failures' = failures
       /\ \E by \in {ByInit} \cup Callers : <<by, f>> \in lost' \ lost

C15_MissingDirectoriesCreated ==
    [][\A f \in Files :
          (dirMissing[f] > 0 /\ WriteAttempted(f)) =>
              (dirMissing'[f] = 0 /\ WriteStarted(f))]_vars

\* C16: when the promise of updateMapFromYoutube resolves, the writes of
\* the map, the ID index and the cycle's appends to the comments file have
\* completed; a scheduler that waits for the promise never has a cycle
\* running while writes of an earlier one are in flight.
WritesInFlight(c) == {o \in BagToSet(pending) : o.by = c}

C16_PersistedWhenResolved ==
    \A c \in Callers :
        /\ calls[c].pc = "resolved" => WritesInFlight(c) = {}
        /\ calls[c].pc \in {"awaitTrending", "awaitFetch"} =>
              \A d \in Callers \ {c} : WritesInFlight(d) = {}

\* C17: the number of comments fetched over all cycles run within one day
\* never exceeds MAX_COMMENTS_PER_DAY, however many cycles are run.
RECURSIVE FetchedBy(_)
FetchedBy(cs) ==
    IF cs = {} THEN 0
    ELSE LET c == CHOOSE d \in cs : TRUE
         IN calls[c].commentsFetched + FetchedBy(cs \ {c})

C17_DailyTotalBound == FetchedBy(Callers) <= MAX_COMMENTS_PER_DAY

\* C18: a video identifier enters the harvested set only after its comments
\* were fetched successfully and merged into the map: in the step that adds
\* it, an invocation awaiting the fetch of that video receives comments the
\* collaborator may give for it, and the map is updated with exactly those.
\* In every state, each identifier of the set was loaded from the ID index
\* or is a video of an invocation whose fetch has returned.
Harvests(c, v) ==
    /\ calls[c].pc = "awaitFetch"
    /\ calls[c].trending[calls[c].i] = v
    /\ calls'[c].pc \in {"awaitFetch", "resolved"}
    /\ \E comments \in BatchComments(v) :
          /\ map' = updateDictionaryFromInput(join(comments), map,
                                              CHAIN_LENGTH)
          /\ calls'[c].commentsFetched =
                calls[c].commentsFetched + Length(comments)

FetchReturned(c, v) ==
    \E k \in DOMAIN calls[c].fetched :
        /\ calls[c].fetched[k] = v
        /\ k < calls[c].i \/ calls[c].pc = "resolved"

C18_HarvestedAfterMerge ==
    /\ [][\A v \in Range(harvestedYoutubeIDs') \ Range(harvestedYoutubeIDs) :
             phase = "ready" => \E c \in Callers : Harvests(c, v)]_vars
    /\ [](phase = "ready" =>
             \A v \in Range(harvestedYoutubeIDs) :
                 \/ v \in Range(boot.disk["ids"].ids)
                 \/ \E c \in Callers : FetchReturned(c, v))

\* identifiers of a run's own fetches are in the set next to the loaded
\* ones, their comments in the map, and a fetch of the same cycle failed
C18_Witness ==
    \E c \in Callers :
        /\ calls[c].ended = "fetchThrew"
        /\ calls[c].i > 2
        /\ calls[c].commentsFetched > MAX_COMMENTS_PER_VIDEO
        /\ Has(harvestedYoutubeIDs, calls[c].trending[1])
        /\ Range(boot.disk["ids"].ids) # {}
        /\ ~Has(harvestedYoutubeIDs, calls[c].trending[calls[c].i])

\* C19: each cycle issues exactly one discovery call and at most
\* MAX_VIDEOS_PER_UPDATE fetch calls, and its promise settles provided every
\* collaborator call it awaits returns or fails in the end.
Settled(c) == calls[c].pc \in {"resolved", "rejected"}

C19_BoundedCallsAndTermination ==
    /\ [][\A c \in Callers :
             /\ calls'[c].pc = "awaitTrending" =>
                   calls[c].pc \in {"idle", "awaitTrending"}
             /\ calls[c].pc # "idle" => calls'[c].pc # "idle"]_vars
    /\ [](\A c \in Callers :
             /\ Len(calls[c].fetched) <= MAX_VIDEOS_PER_UPDATE
             /\ BagCardinality(fetchCount) <=
                   Started * MAX_VIDEOS_PER_UPDATE
             /\ Settled(c) => calls[c].ended # "no")
    /\ (\E c \in Callers : calls[c].pc = "awaitTrending")
           ~> (\A c \in Callers : calls[c].pc # "idle" => Settled(c))

\* a cycle has resolved after MAX_VIDEOS_PER_UPDATE fetches on a list longer
\* than that
C19_Witness ==
    \E c \in Callers :
        /\ calls[c].pc = "resolved"
        /\ Len(calls[c].listed) > MAX_VIDEOS_PER_UPDATE
        /\ Len(calls[c].fetched) = MAX_VIDEOS_PER_UPDATE

====
